---- MODULE Spec2Model ----
(***************************************************************************)
(* Model of wbcache/lookup_container.py.                                   *)
(*   Spec, SpecBulk, SpecLog: an in-process write-back cache               *)
(*     (InProcessWriteBackCache) made of a list of indexes (a ListLookup   *)
(*     on ['pk'] and a DefaultListLookup on ['cat']) and one ChangeLog, in *)
(*     front of a backing store reached only through obj.save().           *)
(*   SpecIdx: one ListLookup or DefaultListLookup on its own.              *)
(*   SpecComp: a CompositeLookup over member indexes.                      *)
(*   SpecSeq: Sequence.next_value called by concurrent threads.            *)
(***************************************************************************)
EXTENDS Integers, Sequences, FiniteSets, TLC

\* Number of model instances (Python objects) the caller works with.
NObj == 3
\* Largest value the process-wide Sequence may reach (bounds the run).
MaxValue == 3

Objs == 1..NObj

\* elem.pk is None
None == 0

\* isinstance(pk, UniqueTransientValue): placeholders are the negative numbers,
\* one per allocation, equal only to themselves.
IsTransient(p) == p < 0

IsReal(p) == p > 0

\* LookupContainer result codes.
LOOKUP_NOT_SUPPORTED == 0
VALUE_UNKNOWN == 1
VALUE_DOES_NOT_EXIST == 2
VALUE_FOUND == 3

\* The attribute the second index is keyed on (never mutated: aliasing contract).
cat(o) == IF o % 2 = 1 THEN "x" ELSE "y"

\* The attribute the indexes' sort_key reads.
rank(o) == (NObj - o) \div 2

VARIABLES
    pk,          \* pk[o]: the identity field of instance o
    cacheable,   \* cacheable[o]: what is_cacheable(o) answers
    indexes,     \* indexes[i]: the _index dict of the i-th configured index
    change_log,  \* the _index dict of the ChangeLog
    value,       \* DjangoModelChange._change_counter.value
    db,          \* identities of the rows the backing store holds
    next_pk,     \* next identity the backing store issues
    next_tmp,    \* number of UniqueTransientValue objects allocated so far
    apply_count, \* history: how often each change record was applied with success
    last,        \* history: the last call, its outcome and the store calls it made
    config,      \* the index, or the member indexes, a caller constructed by itself
    content,     \* history: per key, the records added and not deleted since
    ncalls,      \* history: number of calls made so far
    lock,        \* Sequence._lock: the thread holding it, 0 when free
    threads      \* threads[t]: where thread t is in next_value, and what it got

vars == <<pk, cacheable, indexes, change_log, value, db, next_pk, next_tmp,
          apply_count, last, config, content, ncalls, lock, threads>>

\* What the calls on one InProcessWriteBackCache leave alone
beside == <<config, content, ncalls, lock, threads>>

----------------------------------------------------------------------------
(* Helpers on sequences *)

Range(s) == {s[i] : i \in 1..Len(s)}

Last(s) == s[Len(s)]

\* s without its i-th element
RemoveAt(s, i) == SubSeq(s, 1, i - 1) \o SubSeq(s, i + 1, Len(s))

\* s with x put in front of position i
InsertAt(s, i, x) == SubSeq(s, 1, i - 1) \o <<x>> \o SubSeq(s, i, Len(s))

\* dict[key] = bucket
Put(d, key, bucket) == (key :> bucket) @@ d

----------------------------------------------------------------------------
(* Record equality and the key of a record *)

\* Model.__eq__ as the docstring of add describes it: an instance whose pk is
\* None equals only itself, otherwise instances are equal when their pks are.
Eq(pkf, a, b) == a = b \/ (pkf[a] # None /\ pkf[a] = pkf[b])

Attr(pkf, o, k) == IF k = "pk" THEN pkf[o] ELSE cat(o)

\* _key(elem)
Key(pkf, key_attributes, o) ==
    [i \in 1..Len(key_attributes) |-> Attr(pkf, o, key_attributes[i])]

----------------------------------------------------------------------------
(* sortedcontainers.SortedSet(key=sort_key): a hash set (entries remember the *)
(* hash they were stored under, here the pk at that time) next to a list kept *)
(* in sort-key order.                                                         *)

EmptySortedSet == [s |-> {}, l |-> <<>>]

\* The entries of the hash set that `value in _set` finds: same hash, and the
\* same object or an equal one.
SetMatches(pkf, ss, v) == {e \in ss.s : e.h = pkf[v] /\ Eq(pkf, e.obj, v)}

\* value in _set
SetContains(pkf, ss, v) == SetMatches(pkf, ss, v) # {}

\* SortedKeyList.add: insert to the right of the elements whose key is <= key(value)
ListInsert(l, v) ==
    LET n == Cardinality({i \in 1..Len(l) : rank(l[i]) <= rank(v)})
    IN InsertAt(l, n + 1, v)

\* The positions SortedKeyList.remove may delete: among the elements with the
\* key of value, those equal to value (it deletes the first).
ListMatches(pkf, l, v) == {i \in 1..Len(l) : rank(l[i]) = rank(v) /\ Eq(pkf, l[i], v)}

\* SortedKeyList.remove: ValueError when no element with value's key equals it.
ListRemove(pkf, l, v) ==
    LET m == ListMatches(pkf, l, v)
    IN IF m = {} THEN [ok |-> FALSE, l |-> l]
       ELSE [ok |-> TRUE, l |-> RemoveAt(l, CHOOSE i \in m : \A j \in m : i <= j)]

\* SortedSet.remove: _set.remove(value) (KeyError when absent), then
\* _list.remove(value).
SortedSet_remove(pkf, ss, v) ==
    IF ~SetContains(pkf, ss, v) THEN [ok |-> FALSE, ss |-> ss]
    ELSE LET e == CHOOSE x \in SetMatches(pkf, ss, v) : TRUE
             r == ListRemove(pkf, ss.l, v)
         IN [ok |-> r.ok, ss |-> [s |-> ss.s \ {e}, l |-> r.l]]

\* SortedSet.discard: remove when present, nothing otherwise.
SortedSet_discard(pkf, ss, v) ==
    IF SetContains(pkf, ss, v) THEN SortedSet_remove(pkf, ss, v)
    ELSE [ok |-> TRUE, ss |-> ss]

\* SortedSet.add: nothing when present.
SortedSet_add(pkf, ss, v) ==
    IF SetContains(pkf, ss, v) THEN ss
    ELSE [s |-> ss.s \cup {[obj |-> v, h |-> pkf[v]]}, l |-> ListInsert(ss.l, v)]

----------------------------------------------------------------------------
(* ListLookup: a defaultdict of SortedSet buckets *)

\* self._index[key] of a defaultdict: the bucket, created empty when missing
Bucket(idx, key, empty) == IF key \in DOMAIN idx THEN idx[key] ELSE empty

\* ListLookup.add: hashing elem raises TypeError when its pk is None.
ListLookup_add(pkf, key_attributes, idx, elem) ==
    LET key == Key(pkf, key_attributes, elem)
        b0 == Bucket(idx, key, EmptySortedSet)
        d == SortedSet_discard(pkf, b0, elem)
    IN IF pkf[elem] = None THEN [ok |-> FALSE, idx |-> Put(idx, key, b0)]
       ELSE IF ~d.ok THEN [ok |-> FALSE, idx |-> Put(idx, key, d.ss)]
       ELSE [ok |-> TRUE, idx |-> Put(idx, key, SortedSet_add(pkf, d.ss, elem))]

\* ListLookup.delete
ListLookup_delete(pkf, key_attributes, idx, elem) ==
    LET key == Key(pkf, key_attributes, elem)
    IN IF key \notin DOMAIN idx \/ pkf[elem] = None THEN [ok |-> FALSE, idx |-> idx]
       ELSE LET r == SortedSet_remove(pkf, idx[key], elem)
            IN [ok |-> r.ok, idx |-> Put(idx, key, r.ss)]

\* ListLookup.bulk_add: `self._index[key].add(item)` for each item, no discard;
\* stops at the first item that cannot be hashed.
RECURSIVE ListLookup_bulk_add(_, _, _, _)
ListLookup_bulk_add(pkf, key_attributes, idx, items) ==
    IF items = <<>> THEN [ok |-> TRUE, idx |-> idx]
    ELSE LET item == Head(items)
             key == Key(pkf, key_attributes, item)
             b0 == Bucket(idx, key, EmptySortedSet)
         IN IF pkf[item] = None THEN [ok |-> FALSE, idx |-> Put(idx, key, b0)]
            ELSE ListLookup_bulk_add(pkf, key_attributes,
                                     Put(idx, key, SortedSet_add(pkf, b0, item)),
                                     Tail(items))

\* can_answer_authoritatively: the default of LookupContainer
can_answer_authoritatively == FALSE

\* The key tuple lookup builds from parameters, a record attribute -> value
ParamKey(key_attributes, parameters) ==
    [i \in 1..Len(key_attributes) |-> parameters[key_attributes[i]]]

\* len(parameters) == len(key_attributes) and every key attribute is a parameter
ParamsFit(key_attributes, parameters) ==
    /\ Cardinality(DOMAIN parameters) = Len(key_attributes)
    /\ \A i \in 1..Len(key_attributes) : key_attributes[i] \in DOMAIN parameters

Miss == IF can_answer_authoritatively THEN VALUE_DOES_NOT_EXIST ELSE VALUE_UNKNOWN

\* ListLookup.lookup: reads the dict with `key in self._index`, creates nothing;
\* the truth value of a SortedSet is len(_set), what iterating it gives is _list
ListLookup_lookup(key_attributes, idx, parameters) ==
    IF ~ParamsFit(key_attributes, parameters)
    THEN [code |-> LOOKUP_NOT_SUPPORTED, payload |-> <<>>, idx |-> idx]
    ELSE LET key == ParamKey(key_attributes, parameters)
         IN IF key \in DOMAIN idx /\ idx[key].s # {}
            THEN [code |-> VALUE_FOUND, payload |-> idx[key].l, idx |-> idx]
            ELSE [code |-> Miss, payload |-> <<>>, idx |-> idx]

----------------------------------------------------------------------------
(* DefaultListLookup: a defaultdict of lists, sorted after every add *)

\* list.sort(key=sort_key): stable
RECURSIVE SortByRank(_)
SortByRank(l) ==
    IF l = <<>> THEN <<>>
    ELSE LET rest == SortByRank(SubSeq(l, 1, Len(l) - 1))
             x == Last(l)
             n == Cardinality({i \in 1..Len(rest) : rank(rest[i]) <= rank(x)})
         IN InsertAt(rest, n + 1, x)

\* list.remove(elem): the first equal element goes; ValueError is swallowed
ListRemoveFirst(pkf, l, v) ==
    LET m == {i \in 1..Len(l) : Eq(pkf, l[i], v)}
    IN IF m = {} THEN l ELSE RemoveAt(l, CHOOSE i \in m : \A j \in m : i <= j)

\* DefaultListLookup.add
DefaultListLookup_add(pkf, key_attributes, idx, elem) ==
    LET key == Key(pkf, key_attributes, elem)
        b0 == Bucket(idx, key, <<>>)
        b1 == Append(ListRemoveFirst(pkf, b0, elem), elem)
    IN [ok |-> TRUE, idx |-> Put(idx, key, SortByRank(b1))]

\* [e for e in bucket if e != elem]
ListWithout(pkf, l, v) == SelectSeq(l, LAMBDA e : ~Eq(pkf, e, v))

\* DefaultListLookup.delete
DefaultListLookup_delete(pkf, key_attributes, idx, elem) ==
    LET key == Key(pkf, key_attributes, elem)
    IN IF key \notin DOMAIN idx THEN [ok |-> FALSE, idx |-> idx]
       ELSE [ok |-> TRUE, idx |-> Put(idx, key, ListWithout(pkf, idx[key], elem))]

\* for item in items: self._index[key].append(item)
RECURSIVE AppendEach(_, _, _, _)
AppendEach(pkf, key_attributes, idx, items) ==
    IF items = <<>> THEN idx
    ELSE LET key == Key(pkf, key_attributes, Head(items))
         IN AppendEach(pkf, key_attributes,
                       Put(idx, key, Append(Bucket(idx, key, <<>>), Head(items))),
                       Tail(items))

\* for item in items: self.add(item)
RECURSIVE DefaultListLookup_add_each(_, _, _, _)
DefaultListLookup_add_each(pkf, key_attributes, idx, items) ==
    IF items = <<>> THEN idx
    ELSE DefaultListLookup_add_each(
             pkf, key_attributes,
             DefaultListLookup_add(pkf, key_attributes, idx, Head(items)).idx,
             Tail(items))

\* DefaultListLookup.bulk_add: on an index without any bucket, append all items
\* and sort every bucket once; otherwise add them one by one.
DefaultListLookup_bulk_add(pkf, key_attributes, idx, items) ==
    IF Cardinality(DOMAIN idx) = 0
    THEN LET filled == AppendEach(pkf, key_attributes, idx, items)
         IN [ok |-> TRUE, idx |-> [k \in DOMAIN filled |-> SortByRank(filled[k])]]
    ELSE [ok |-> TRUE, idx |-> DefaultListLookup_add_each(pkf, key_attributes, idx, items)]

\* DefaultListLookup.lookup: self._index[key] creates the bucket it reads
DefaultListLookup_lookup(key_attributes, idx, parameters) ==
    IF ~ParamsFit(key_attributes, parameters)
    THEN [code |-> LOOKUP_NOT_SUPPORTED, payload |-> <<>>, idx |-> idx]
    ELSE LET key == ParamKey(key_attributes, parameters)
             b == Bucket(idx, key, <<>>)
         IN IF b # <<>>
            THEN [code |-> VALUE_FOUND, payload |-> b, idx |-> Put(idx, key, b)]
            ELSE [code |-> Miss, payload |-> <<>>, idx |-> Put(idx, key, b)]

----------------------------------------------------------------------------
(* The backing store, reached through obj.save().  A store call works on a    *)
(* record st = [pk, db, next_pk, calls, applied, ok]: the instances' pks, the *)
(* rows, the next identity to issue, the calls made so far by the running    *)
(* handler, the change records it applied, and whether it is still running   *)
(* (FALSE once an exception is on its way to the caller).                    *)

\* One call of the store: the function called, the instance and its pk when
\* called, the change record whose apply_change made the call, and whether the
\* store returned (ok) or raised.
StoreCall(st, change, ok) ==
    [fn |-> "save", obj |-> change.obj, pk |-> st.pk[change.obj],
     change |-> change, ok |-> ok]

\* self.obj.save(): raises when the store fails; gives a record without identity
\* a fresh one; otherwise writes the row of the record's pk.
save(st, change, fails) ==
    LET o == change.obj
    IN IF fails
       THEN [st EXCEPT !.calls = Append(@, StoreCall(st, change, FALSE)), !.ok = FALSE]
       ELSE IF st.pk[o] = None
       THEN [st EXCEPT !.pk[o] = st.next_pk,
                       !.db = @ \cup {st.next_pk},
                       !.next_pk = @ + 1,
                       !.calls = Append(@, StoreCall(st, change, TRUE))]
       ELSE [st EXCEPT !.db = @ \cup {st.pk[o]},
                       !.calls = Append(@, StoreCall(st, change, TRUE))]

----------------------------------------------------------------------------
(* Change records and the ChangeLog *)

\* DjangoModelChange.__init__ under SaveOp.__init__ / DeleteOp.__init__
SaveOp(o, counter) == [change_counter |-> counter, change_type |-> "save", obj |-> o]

DeleteOp(o, counter) == [change_counter |-> counter, change_type |-> "delete", obj |-> o]

\* A handler's record once op.apply_change() has returned
Applied(st, change) == [st EXCEPT !.applied = Append(@, change)]

\* DeleteOp.apply_change
DeleteOp_apply_change(st, change, fails) ==
    IF st.pk[change.obj] = None
    THEN Applied(st, change)
    ELSE LET s1 == save(st, change, fails)
         IN IF s1.ok THEN Applied(s1, change) ELSE s1

\* SaveOp.apply_change
SaveOp_apply_change(st, change, fails) ==
    LET s0 == IF IsTransient(st.pk[change.obj])
              THEN [st EXCEPT !.pk[change.obj] = None]
              ELSE st
        s1 == save(s0, change, fails)
    IN IF s1.ok THEN Applied(s1, change) ELSE s1

\* change.apply_change()
apply_change(st, change, fails) ==
    IF change.change_type = "delete"
    THEN DeleteOp_apply_change(st, change, fails)
    ELSE SaveOp_apply_change(st, change, fails)

\* ChangeLog_add that stores nothing
ChangeLog_add_nothing(log, pkf, change) == log

\* ChangeLog.add: ListLookup.add of a fresh change object (hashed by identity,
\* so discard finds nothing) into the bucket of its record's current pk, a
\* SortedSet ordered by change_counter.
ChangeLog_add(log, pkf, change) ==
    LET key == <<pkf[change.obj]>>
        b == Bucket(log, key, <<>>)
        n == Cardinality({i \in 1..Len(b) : b[i].change_counter <= change.change_counter})
    IN Put(log, key, InsertAt(b, n + 1, change))

LatestOf_oldest(changes) == changes[1]

\* changes[-1] of a bucket
LatestOf(changes) == changes[Len(changes)]

\* latest_changes_for_each_pk_value, before it is sorted
LatestChanges(log) == {LatestOf(log[k]) : k \in {x \in DOMAIN log : log[x] # <<>>}}

\* list.sort(key=attrgetter('change_counter'))
RECURSIVE SortByCounter(_)
SortByCounter(S) ==
    IF S = {} THEN <<>>
    ELSE LET m == CHOOSE c \in S : \A d \in S : c.change_counter <= d.change_counter
         IN <<m>> \o SortByCounter(S \ {m})

\* for change in latest_changes_for_each_pk_value: change.apply_change()
\* The store fails at the failAt-th change (never when failAt = 0).
RECURSIVE ApplyEach(_, _, _, _)
ApplyEach(st, changes, i, failAt) ==
    IF i > Len(changes) \/ ~st.ok THEN st
    ELSE ApplyEach(apply_change(st, changes[i], i = failAt), changes, i + 1, failAt)

\* ChangeLog.apply_all
apply_all(st, log, failAt) == ApplyEach(st, SortByCounter(LatestChanges(log)), 1, failAt)

----------------------------------------------------------------------------
(* CompositeLookup over the configured indexes *)

\* The indexes the cache is constructed with, in order.
Indexes == <<[kind |-> "ListLookup", key_attributes |-> <<"pk">>],
             [kind |-> "DefaultListLookup", key_attributes |-> <<"cat">>]>>

\* idx.add(elem)
index_add(i, pkf, idx, elem) ==
    IF Indexes[i].kind = "ListLookup"
    THEN ListLookup_add(pkf, Indexes[i].key_attributes, idx, elem)
    ELSE DefaultListLookup_add(pkf, Indexes[i].key_attributes, idx, elem)

\* idx.delete(elem)
index_delete(i, pkf, idx, elem) ==
    IF Indexes[i].kind = "ListLookup"
    THEN ListLookup_delete(pkf, Indexes[i].key_attributes, idx, elem)
    ELSE DefaultListLookup_delete(pkf, Indexes[i].key_attributes, idx, elem)

\* idx.bulk_add(items)
index_bulk_add(i, pkf, idx, items) ==
    IF Indexes[i].kind = "ListLookup"
    THEN ListLookup_bulk_add(pkf, Indexes[i].key_attributes, idx, items)
    ELSE DefaultListLookup_bulk_add(pkf, Indexes[i].key_attributes, idx, items)

\* idx.lookup(**parameters)
index_lookup(i, idx, parameters) ==
    IF Indexes[i].kind = "ListLookup"
    THEN ListLookup_lookup(Indexes[i].key_attributes, idx, parameters)
    ELSE DefaultListLookup_lookup(Indexes[i].key_attributes, idx, parameters)

\* `for idx in self.indexes: idx.<op>(elem)`, r[i] being what the i-th call
\* does: the loop stops at the first call that raises.
Broadcast(idxs, r) ==
    [ok |-> \A i \in 1..Len(idxs) : r[i].ok,
     indexes |-> [i \in 1..Len(idxs) |->
                    IF \A j \in 1..(i - 1) : r[j].ok THEN r[i].idx ELSE idxs[i]]]

\* CompositeLookup.add
CompositeLookup_add(pkf, idxs, elem) ==
    Broadcast(idxs, [i \in 1..Len(idxs) |-> index_add(i, pkf, idxs[i], elem)])

\* CompositeLookup.delete
CompositeLookup_delete(pkf, idxs, elem) ==
    Broadcast(idxs, [i \in 1..Len(idxs) |-> index_delete(i, pkf, idxs[i], elem)])

\* CompositeLookup.bulk_add
CompositeLookup_bulk_add(pkf, idxs, items) ==
    Broadcast(idxs, [i \in 1..Len(idxs) |-> index_bulk_add(i, pkf, idxs[i], items)])

\* CompositeLookup.clear
CompositeLookup_clear(idxs) == [i \in 1..Len(idxs) |-> <<>>]

\* Max giving the code of the index asked last
Max_latest(a, b) == b

Max(a, b) == IF a >= b THEN a ELSE b

\* CompositeLookup.lookup, from the i-th index on, retcode being the maximum so far
RECURSIVE LookupFrom(_, _, _, _)
LookupFrom(idxs, parameters, i, retcode) ==
    IF i > Len(idxs) THEN [code |-> retcode, payload |-> <<>>, indexes |-> idxs]
    ELSE LET r == index_lookup(i, idxs[i], parameters)
             touched == [idxs EXCEPT ![i] = r.idx]
         IN IF r.code \in {VALUE_FOUND, VALUE_DOES_NOT_EXIST}
            THEN [code |-> r.code, payload |-> r.payload, indexes |-> touched]
            ELSE LookupFrom(touched, parameters, i + 1, Max(retcode, r.code))

CompositeLookup_lookup(idxs, parameters) ==
    LookupFrom(idxs, parameters, 1, LOOKUP_NOT_SUPPORTED)

----------------------------------------------------------------------------
(* InProcessWriteBackCache *)

\* is_cacheable(elem): the policy of the concrete cache, a fixed flag per record
is_cacheable(o) == cacheable[o]

\* len(self.change_log): the number of keys of its dict
ChangeLogLen(log) == Cardinality(DOMAIN log)

\* The handler's view of the store when it starts
Store0 == [pk |-> pk, db |-> db, next_pk |-> next_pk, calls |-> <<>>,
           applied |-> <<>>, ok |-> TRUE]

\* The change records a ChangeLog dict holds
LogRecords(log) == UNION {Range(log[k]) : k \in DOMAIN log}

\* What `last` remembers of a call: the operation and its arguments, whether it
\* returned (ok) or raised, the store calls it made, the change records it
\* applied, and how many change records the log held when it started.
Called(op, o, force, ok, st) ==
    [op |-> op, obj |-> o, force |-> force, ok |-> ok, calls |-> st.calls,
     applied |-> st.applied, logged |-> Cardinality(LogRecords(change_log))]

\* apply_count after the handler applied the change records of st.applied
Counted(st) ==
    [c \in DOMAIN apply_count |->
        IF \E i \in 1..Len(st.applied) : st.applied[i].change_counter = c
        THEN IF apply_count[c] >= 2 THEN 2 ELSE apply_count[c] + 1
        ELSE apply_count[c]]

\* The branch of add and delete for a record that is not cacheable
ApplyDirectly(name, o, op) ==
    \E fails \in BOOLEAN :
        LET st == apply_change(Store0, op, fails)
        IN /\ pk' = st.pk
           /\ db' = st.db
           /\ next_pk' = st.next_pk
           /\ apply_count' = Counted(st)
           /\ last' = Called(name, o, FALSE, st.ok, st)
           /\ UNCHANGED <<indexes, change_log, next_tmp>>
           /\ UNCHANGED beside

\* AddCached with the write going through to the store at once
AddCached_write_through(o, op) == ApplyDirectly("add", o, op)

\* The cacheable branch of InProcessWriteBackCache.add
AddCached(o, op) ==
    LET fresh == pk[o] = None
        pk1 == IF fresh THEN [pk EXCEPT ![o] = -(next_tmp + 1)] ELSE pk
        c == CompositeLookup_add(pk1, indexes, o)
    IN /\ pk' = pk1
       /\ next_tmp' = IF fresh THEN next_tmp + 1 ELSE next_tmp
       /\ indexes' = c.indexes
       /\ change_log' = IF c.ok THEN ChangeLog_add(change_log, pk1, op) ELSE change_log
       /\ last' = Called("add", o, FALSE, c.ok, Store0)
       /\ UNCHANGED <<db, next_pk, apply_count>>
       /\ UNCHANGED beside

\* InProcessWriteBackCache.add
Add(o) ==
    /\ value < MaxValue
    /\ value' = value + 1
    /\ IF is_cacheable(o)
       THEN AddCached(o, SaveOp(o, value + 1))
       ELSE ApplyDirectly("add", o, SaveOp(o, value + 1))
    /\ UNCHANGED cacheable

\* The cacheable branch of InProcessWriteBackCache.delete
DeleteCached(o, op) ==
    LET c == CompositeLookup_delete(pk, indexes, o)
    IN /\ indexes' = c.indexes
       /\ change_log' = IF c.ok THEN ChangeLog_add(change_log, pk, op) ELSE change_log
       /\ last' = Called("delete", o, FALSE, c.ok, Store0)
       /\ UNCHANGED <<pk, next_tmp, db, next_pk, apply_count>>
       /\ UNCHANGED beside

\* InProcessWriteBackCache.delete
Delete(o) ==
    /\ value < MaxValue
    /\ value' = value + 1
    /\ IF is_cacheable(o)
       THEN DeleteCached(o, DeleteOp(o, value + 1))
       ELSE ApplyDirectly("delete", o, DeleteOp(o, value + 1))
    /\ UNCHANGED cacheable

\* LogAfterFlush without the clear()
LogAfterFlush_not_cleared(st, log) == log

\* LogAfterFlush with the clear() in a finally clause
LogAfterFlush_always_cleared(st, log) == <<>>

\* The change log flush_changes_to_database leaves: self.change_log.clear() runs
\* only when apply_all has returned
LogAfterFlush(st, log) == IF st.ok THEN <<>> ELSE log

\* InProcessWriteBackCache.flush_changes_to_database; the store fails at the
\* failAt-th change it is handed, or not at all
Flush ==
    \E failAt \in 0..Cardinality(LatestChanges(change_log)) :
        LET st == apply_all(Store0, change_log, failAt)
        IN /\ pk' = st.pk
           /\ db' = st.db
           /\ next_pk' = st.next_pk
           /\ apply_count' = Counted(st)
           /\ change_log' = LogAfterFlush(st, change_log)
           /\ last' = Called("flush", 0, FALSE, st.ok, st)
           /\ UNCHANGED <<cacheable, indexes, value, next_tmp>>
           /\ UNCHANGED beside

\* ClearAllowed without the validate_equals
ClearAllowed_unchecked(force, log) == TRUE

\* clear passes `if not force: util.validate_equals(0, len(self.change_log))`
ClearAllowed(force, log) == force \/ ChangeLogLen(log) = 0

\* InProcessWriteBackCache.clear
Clear(force) ==
    LET ok == ClearAllowed(force, change_log)
    IN /\ indexes' = CompositeLookup_clear(indexes)
       /\ change_log' = IF ok THEN <<>> ELSE change_log
       /\ last' = Called("clear", 0, force, ok, Store0)
       /\ UNCHANGED <<pk, cacheable, value, db, next_pk, next_tmp, apply_count>>
       /\ UNCHANGED beside

Init ==
    /\ pk = [o \in Objs |-> IF o = 1 THEN None ELSE 1]
    /\ cacheable \in {[o \in Objs |-> o # n] : n \in 0..2}
    /\ indexes = [i \in 1..Len(Indexes) |-> <<>>]
    /\ change_log = <<>>
    /\ value = 0
    /\ db = {1}
    /\ next_pk = 2
    /\ next_tmp = 0
    /\ apply_count = [c \in 1..MaxValue |-> 0]
    /\ last = Called("init", 0, FALSE, TRUE, Store0)
    /\ config = <<>>
    /\ content = <<>>
    /\ ncalls = 0
    /\ lock = 0
    /\ threads = <<>>

Next ==
    \/ \E o \in Objs : Add(o)
    \/ \E o \in Objs : Delete(o)
    \/ Flush
    \/ \E force \in BOOLEAN : Clear(force)

Spec == Init /\ [][Next]_vars

----------------------------------------------------------------------------
(* The cache loaded in bulk: bulk_add, which InProcessWriteBackCache inherits *)
(* from CompositeLookup, next to the calls of Spec.                          *)

\* Longest list of records handed to one bulk_add of the cache
MaxLoad == 1
\* Number of bulk_add calls on the cache
MaxBulk == 1

RECURSIVE SeqsUpTo(_, _)
SeqsUpTo(S, n) ==
    IF n = 0 THEN {<<>>}
    ELSE LET shorter == SeqsUpTo(S, n - 1)
         IN shorter \cup {Append(q, x) : q \in shorter, x \in S}

\* The lists of records a caller hands to bulk_add
Loads == SeqsUpTo(Objs, MaxLoad) \ {<<>>}

\* InProcessWriteBackCache.bulk_add (CompositeLookup.bulk_add): the indexes
\* take the records, the change log is not touched
BulkAdd(items) ==
    LET c == CompositeLookup_bulk_add(pk, indexes, items)
    IN /\ ncalls < MaxBulk
       /\ ncalls' = ncalls + 1
       /\ indexes' = c.indexes
       /\ last' = Called("bulk_add", items, FALSE, c.ok, Store0)
       /\ UNCHANGED <<pk, cacheable, change_log, value, db, next_pk, next_tmp,
                      apply_count, config, content, lock, threads>>

NextBulk ==
    \/ \E o \in Objs : Add(o)
    \/ \E o \in Objs : Delete(o)
    \/ Flush
    \/ \E force \in BOOLEAN : Clear(force)
    \/ \E items \in Loads : BulkAdd(items)

\* A cache whose records are all cacheable, constructed when the process-wide
\* Sequence has two values left below MaxValue.
InitBulk ==
    /\ pk = [o \in Objs |-> IF o = 1 THEN None ELSE 1]
    /\ cacheable = [o \in Objs |-> TRUE]
    /\ indexes = [i \in 1..Len(Indexes) |-> <<>>]
    /\ change_log = <<>>
    /\ value = MaxValue - 2
    /\ db = {1}
    /\ next_pk = 2
    /\ next_tmp = 0
    /\ apply_count = [c \in 1..MaxValue |-> 0]
    /\ last = Called("init", 0, FALSE, TRUE, Store0)
    /\ config = <<>>
    /\ content = <<>>
    /\ ncalls = 0
    /\ lock = 0
    /\ threads = <<>>

SpecBulk == InitBulk /\ [][NextBulk]_vars

----------------------------------------------------------------------------
(* Properties of the change log and of flushing *)

\* The keys of the change log that hold at least one change record: the
\* identities its records were logged under
LogKeys(log) == {k \in DOMAIN log : log[k] # <<>>}

\* ch is the change record with the highest counter of its identity
HighestOfIdentity(log, ch) ==
    \E k \in LogKeys(log) :
        /\ ch \in Range(log[k])
        /\ \A d \in Range(log[k]) : d.change_counter <= ch.change_counter

\* Every change record is logged under the identity its record has now
KeysCurrent(log, pkf) ==
    \A k \in DOMAIN log : \A ch \in Range(log[k]) : k = <<pkf[ch.obj]>>

StoreCalls(l) == {l.calls[j] : j \in 1..Len(l.calls)}

C1_Step ==
    last'.op = "flush" =>
        LET A == last'.applied
            E == {ch \in LogRecords(change_log) : HighestOfIdentity(change_log, ch)}
        IN /\ \A i \in 1..Len(A) : A[i] \in E
           /\ \A i, j \in 1..Len(A) : i < j => A[i].change_counter < A[j].change_counter
           /\ last'.ok => /\ Range(A) = E
                          /\ Len(A) = Cardinality(LogKeys(change_log))
                          /\ KeysCurrent(change_log, pk) =>
                                Len(A) = Cardinality({pk[ch.obj] : ch \in LogRecords(change_log)})
           /\ ~last'.ok => \E e \in E \ Range(A) :
                                Range(A) = {x \in E : x.change_counter < e.change_counter}

\* C1: apply_all applies, of a change log whose records are logged under K
\* identities, exactly K change records when the store does not fail: for each
\* identity the one with the highest change counter and no earlier one, in
\* ascending change-counter order over all identities.  When the store fails
\* at one of them, the ones before it in that order are what was applied.
C1_ApplyAllLatestAscending == [][C1_Step]_vars

\* A flush that found three change records of two identities and applied two
C1_Witness ==
    /\ last.op = "flush" /\ last.ok
    /\ last.logged = 3
    /\ Len(last.applied) = 2

\* C2: a Delete change record applied for a record with a real identity runs
\* the store's delete for it, never its save, and the row is gone afterwards.
C2_DeleteExecutesStoreDelete ==
    \A call \in StoreCalls(last) :
        (call.change.change_type = "delete" /\ IsReal(call.pk)) =>
            /\ call.fn = "delete"
            /\ call.ok => call.pk \notin db

C3_Step ==
    last'.op = "flush" =>
        \A o \in Objs :
            ( /\ IsTransient(pk[o])
              /\ <<pk[o]>> \in LogKeys(change_log)
              /\ change_log[<<pk[o]>>][1] = SaveOp(o, change_log[<<pk[o]>>][1].change_counter)
              /\ LatestOf(change_log[<<pk[o]>>]).change_type = "delete" )
            => \A call \in StoreCalls(last') : call.obj # o

\* C3: a record created without identity, added and then deleted before any
\* flush (its change records sit under its placeholder, a Save first and a
\* Delete last) gets no store call at all from the next flush.
C3_AddedThenDeletedNeverReachesStore == [][C3_Step]_vars

\* The records the identity index (the first configured index) holds
InIdentityIndex(o) ==
    \E k \in DOMAIN indexes[1] : o \in Range(indexes[1][k].l)

\* C4: after a flush that returned, a record that was added without identity,
\* got its identity from the store in that flush and is still in the identity
\* index is FOUND by lookup(pk = its identity).
C4_RoundTripFound ==
    (last.op = "flush" /\ last.ok) =>
        \A call \in StoreCalls(last) :
            ( /\ call.change.change_type = "save"
              /\ call.pk = None
              /\ InIdentityIndex(call.obj) )
            => LET r == CompositeLookup_lookup(indexes, [pk |-> pk[call.obj]])
               IN r.code = VALUE_FOUND /\ call.obj \in Range(r.payload)

\* C5: no change record is applied to the backing store more than once.
C5_AppliedAtMostOnce == \A c \in DOMAIN apply_count : apply_count[c] <= 1

----------------------------------------------------------------------------
(* Properties of the cache's routing, of flush and of clear *)

\* The step is an add or a delete of a record, cacheable or not as asked
Routed(l, cached) == l.op \in {"add", "delete"} /\ cacheable[l.obj] = cached

C6_Step ==
    /\ Routed(last', TRUE) =>
          /\ last'.calls = <<>>
          /\ last'.applied = <<>>
          /\ db' = db /\ next_pk' = next_pk
    /\ (db' # db \/ next_pk' # next_pk) =>
          last'.op = "flush" \/ Routed(last', FALSE)

\* C6: add and delete of a cacheable record make no store call and leave the
\* store as it is; the store changes only in a flush or in the add or delete
\* of a record that is not cacheable.
C6_WritesDeferred == [][C6_Step]_vars

\* A cacheable record was added and one was deleted, both logged, while the
\* store still holds what it held at the start
C6_Witness ==
    /\ Routed(last, TRUE) /\ last.op = "delete" /\ last.ok
    /\ Cardinality(LogRecords(change_log)) >= 2
    /\ db = {1} /\ next_pk = 2

C7_Step ==
    Routed(last', FALSE) =>
        LET o == last'.obj
        IN /\ indexes' = indexes
           /\ change_log' = change_log
           /\ next_tmp' = next_tmp /\ ~IsTransient(pk'[o])
           /\ last'.op = "add" =>
                 \E call \in StoreCalls(last') : call.obj = o /\ call.fn = "save"
           /\ (last'.op = "delete" /\ IsReal(pk[o])) =>
                 /\ \E call \in StoreCalls(last') : call.obj = o /\ call.fn = "delete"
                 /\ \A call \in StoreCalls(last') : call.fn # "save"

\* C7: add of a record that is not cacheable saves it to the store at once,
\* delete of one (with a real identity) deletes it from the store at once, and
\* both leave every index and the change log as they were and assign no
\* placeholder.
C7_NotCacheableGoesToStore == [][C7_Step]_vars

C8_Step ==
    /\ (last'.op = "flush" /\ last'.ok) =>
          /\ change_log' = <<>>
          /\ LogRecords(change_log') = {}
          /\ indexes' = indexes
    /\ (last.op = "flush" /\ last.ok /\ last'.op = "flush") =>
          /\ last'.calls = <<>>
          /\ db' = db

\* C8: a flush that returns leaves the change log empty and every index with
\* the records it had, bucket by bucket; a flush that directly follows it makes
\* no store call.
C8_FlushClearsLogKeepsIndexes == [][C8_Step]_vars

\* A flush that applied changes has returned with records still indexed
C8_Witness ==
    /\ last.op = "flush" /\ last.ok /\ last.applied # <<>>
    /\ \E o \in Objs : InIdentityIndex(o)
    /\ change_log = <<>>

C9_Step ==
    (last'.op = "flush" /\ \E call \in StoreCalls(last') : ~call.ok) =>
        /\ ~last'.ok
        /\ change_log' = change_log
        /\ \A call \in StoreCalls(last') :
              ~call.ok => /\ call.change \in LatestChanges(change_log')
                          /\ call.change \notin Range(last'.applied)

\* C9: when a store call fails during a flush, the flush raises, the change
\* log holds exactly the change records it held before, and the change that
\* failed is still the latest of its identity, so the next flush applies it.
C9_FailedFlushKeepsLog == [][C9_Step]_vars

\* A flush has failed at its second change: one change applied, both logged
C9_Witness ==
    /\ last.op = "flush" /\ ~last.ok
    /\ Len(last.applied) = 1
    /\ Cardinality(LogRecords(change_log)) = last.logged
    /\ last.logged >= 2

C10_Step ==
    last'.op = "clear" =>
        /\ (~last'.force /\ LogRecords(change_log) # {}) =>
              /\ ~last'.ok
              /\ change_log' = change_log
        /\ last'.force =>
              /\ last'.ok
              /\ LogRecords(change_log') = {} /\ DOMAIN change_log' = {}
              /\ \A i \in 1..Len(indexes') : DOMAIN indexes'[i] = {}

\* C10: clear(force=False) raises whenever the change log holds a change
\* record, and then the log keeps every record; clear(force=True) always
\* returns and leaves every index and the change log empty.
C10_ClearGuardsLog == [][C10_Step]_vars

\* clear(force=False) has raised on a log that holds change records
C10_Witness ==
    /\ last.op = "clear" /\ ~last.force /\ ~last.ok
    /\ LogRecords(change_log) # {}

----------------------------------------------------------------------------
(* Properties of the indexes against the change log *)

\* The records the i-th configured index holds
Records(i, idx) ==
    UNION {IF Indexes[i].kind = "ListLookup" THEN Range(idx[k].l) ELSE Range(idx[k])
           : k \in DOMAIN idx}

\* The records some configured index holds
Indexed == UNION {Records(i, indexes[i]) : i \in 1..Len(Indexes)}

\* The record has a change record in the log under its identity
Logged(o) == <<pk[o]>> \in LogKeys(change_log)

----------------------------------------------------------------------------
(* Properties of record identities *)

\* The record has been added to the cache: an index holds it or the log holds
\* a Save of it
Added(o) ==
    \/ o \in Indexed
    \/ \E ch \in LogRecords(change_log) : ch.obj = o /\ ch.change_type = "save"

\* One step keeps the identity of every added cacheable record set: a real
\* identity stays, a placeholder stays or becomes a real identity, and it
\* becomes one only in a flush that applied the record's Save.
C12_Step ==
    \A o \in Objs :
        (is_cacheable(o) /\ Added(o) /\ pk[o] # None) =>
            /\ pk'[o] # None
            /\ IsReal(pk[o]) => pk'[o] = pk[o]
            /\ (IsTransient(pk[o]) /\ pk'[o] # pk[o]) =>
                  /\ IsReal(pk'[o])
                  /\ last'.op = "flush"
                  /\ \E i \in 1..Len(last'.applied) :
                        /\ last'.applied[i].obj = o
                        /\ last'.applied[i].change_type = "save"

\* C12: once a cacheable record has been added, its identity is never unset
\* again, and its placeholder is replaced once, by a real identity, at the flush
\* that applies its Save, also when the store fails during a flush.
C12_IdentityNeverUnset == [][C12_Step]_vars

\* One call of clear that fails leaves the cache as it was
C20_Step ==
    (last'.op = "clear" /\ ~last'.force /\ ~last'.ok) =>
        /\ \A i \in 1..Len(Indexes) : Records(i, indexes'[i]) = Records(i, indexes[i])
        /\ LogRecords(change_log') = LogRecords(change_log)

\* C20: a clear(force=False) that fails because the change log is not empty
\* leaves the cache unchanged: every index holds the records it held before
\* the call, and the change log holds all its change records.
C20_FailedClearChangesNothing == [][C20_Step]_vars

----------------------------------------------------------------------------
(* The change log called directly, next to the calls of the cache *)

\* ChangeLog_delete taking the change record out of its bucket
ChangeLog_delete_removes(log, change) ==
    [ok |-> TRUE,
     log |-> [k \in DOMAIN log |-> SelectSeq(log[k], LAMBDA c : c # change)]]

\* ChangeLog.delete: util.fail, whatever the argument
ChangeLog_delete(log, change) == [ok |-> FALSE, log |-> log]

\* What a caller can hand to ChangeLog.add: a change record or a model instance
IsDjangoModelChange(arg) == arg.isa = "DjangoModelChange"

\* ChangeLog.add: util.validate(isinstance(change, DjangoModelChange)), then
\* ListLookup.add
ChangeLog_add_validated(log, pkf, arg) ==
    IF ~IsDjangoModelChange(arg) THEN [ok |-> FALSE, log |-> log]
    ELSE [ok |-> TRUE, log |-> ChangeLog_add(log, pkf, arg.change)]

\* cache.change_log.delete(change) for a change record the log holds
LogDelete(change) ==
    LET r == ChangeLog_delete(change_log, change)
    IN /\ change_log' = r.log
       /\ last' = Called("log_delete", 0, FALSE, r.ok, Store0)
       /\ UNCHANGED <<pk, cacheable, indexes, value, db, next_pk, next_tmp, apply_count>>
       /\ UNCHANGED beside

\* cache.change_log.add(elem) for a model instance
LogAdd(o) ==
    LET r == ChangeLog_add_validated(change_log, pk, [isa |-> "Model", obj |-> o])
    IN /\ change_log' = r.log
       /\ last' = Called("log_add", 0, FALSE, r.ok, Store0)
       /\ UNCHANGED <<pk, cacheable, indexes, value, db, next_pk, next_tmp, apply_count>>
       /\ UNCHANGED beside

NextLog ==
    \/ \E o \in Objs : Add(o)
    \/ \E o \in Objs : Delete(o)
    \/ Flush
    \/ \E force \in BOOLEAN : Clear(force)
    \/ \E change \in LogRecords(change_log) : LogDelete(change)
    \/ \E o \in Objs : LogAdd(o)

SpecLog == Init /\ [][NextLog]_vars

\* s is an initial part of t
IsPrefix(s, t) == Len(s) <= Len(t) /\ SubSeq(t, 1, Len(s)) = s

\* The change records of a bucket are in ascending counter order
Ascending(b) == \A i, j \in 1..Len(b) : i < j => b[i].change_counter < b[j].change_counter

\* One step that is neither a flush nor a clear: every identity keeps its change
\* records and new ones come behind them; ChangeLog.delete and ChangeLog.add of
\* a model instance fail; a cacheable delete that returned has put its Delete
\* last under the record's identity.
C19_Step ==
    /\ last'.op \notin {"flush", "clear"} =>
          \A k \in DOMAIN change_log :
              k \in DOMAIN change_log' /\ IsPrefix(change_log[k], change_log'[k])
    /\ \A k \in DOMAIN change_log' : Ascending(change_log'[k])
    /\ last'.op \in {"log_delete", "log_add"} => ~last'.ok
    /\ (last'.op = "delete" /\ last'.ok /\ is_cacheable(last'.obj)) =>
          LET k == <<pk[last'.obj]>>
          IN /\ k \in DOMAIN change_log'
             /\ Last(change_log'[k]) = DeleteOp(last'.obj, value')
             /\ Len(change_log'[k]) = Len(Bucket(change_log, k, <<>>)) + 1

\* C19: change records leave the log only by flush or clear: ChangeLog.delete
\* always fails, ChangeLog.add fails for what is not a change record, a cacheable
\* delete appends a Delete change record, so the change records of an identity
\* only grow and stay in ascending counter order between flushes and clears.
C19_HistoryOnlyGrows == [][C19_Step]_vars

\* ChangeLog.delete has failed on a log that holds a Save and then a Delete
\* under one identity
C19_Witness ==
    /\ last.op = "log_delete" /\ ~last.ok
    /\ \E k \in DOMAIN change_log :
          /\ Len(change_log[k]) >= 2
          /\ Last(change_log[k]).change_type = "delete"

----------------------------------------------------------------------------
(* One bucket index on its own: a ListLookup or a DefaultListLookup a caller  *)
(* constructed, with sort_key reading rank.  config is [kind, key_attributes],*)
(* indexes[1] its _index dict.                                                *)

\* Number of calls made on the index
MaxCalls == 3
\* Longest list of records handed to one bulk_add of the index
MaxItems == 2

\* idx.add(elem) of an index constructed as cfg says
member_add(cfg, pkf, idx, elem) ==
    IF cfg.kind = "ListLookup"
    THEN ListLookup_add(pkf, cfg.key_attributes, idx, elem)
    ELSE DefaultListLookup_add(pkf, cfg.key_attributes, idx, elem)

\* idx.delete(elem)
member_delete(cfg, pkf, idx, elem) ==
    IF cfg.kind = "ListLookup"
    THEN ListLookup_delete(pkf, cfg.key_attributes, idx, elem)
    ELSE DefaultListLookup_delete(pkf, cfg.key_attributes, idx, elem)

\* idx.bulk_add(items)
member_bulk_add(cfg, pkf, idx, items) ==
    IF cfg.kind = "ListLookup"
    THEN ListLookup_bulk_add(pkf, cfg.key_attributes, idx, items)
    ELSE DefaultListLookup_bulk_add(pkf, cfg.key_attributes, idx, items)

\* idx.lookup(**parameters)
member_lookup(cfg, idx, parameters) ==
    IF cfg.kind = "ListLookup"
    THEN ListLookup_lookup(cfg.key_attributes, idx, parameters)
    ELSE DefaultListLookup_lookup(cfg.key_attributes, idx, parameters)

\* `for item in items: idx.add(item)` by the caller, up to the first add that raises
RECURSIVE AddEach(_, _, _, _)
AddEach(cfg, pkf, idx, items) ==
    IF items = <<>> THEN [ok |-> TRUE, idx |-> idx]
    ELSE LET r == member_add(cfg, pkf, idx, Head(items))
         IN IF r.ok THEN AddEach(cfg, pkf, r.idx, Tail(items)) ELSE r

\* The keyword arguments callers pass to lookup
Parameters ==
    {("cat" :> c) : c \in {"x", "y"}}
        \cup {("pk" :> p) : p \in 1..2}
        \cup {("pk" :> 1) @@ ("cat" :> "x"), <<>>}

\* The lists of records callers hand to bulk_add
ItemLists == SeqsUpTo(Objs, MaxItems) \ {<<>>}

\* history: the records of a bucket once elem has been added, or deleted
Without(pkf, recs, elem) == {e \in recs : ~Eq(pkf, e, elem)}

ContentAdd(pkf, key_attributes, recs, elem) ==
    LET key == Key(pkf, key_attributes, elem)
    IN Put(recs, key, Without(pkf, Bucket(recs, key, {}), elem) \cup {elem})

ContentDelete(pkf, key_attributes, recs, elem) ==
    LET key == Key(pkf, key_attributes, elem)
    IN Put(recs, key, Without(pkf, Bucket(recs, key, {}), elem))

RECURSIVE ContentAddEach(_, _, _, _)
ContentAddEach(pkf, key_attributes, recs, items) ==
    IF items = <<>> THEN recs
    ELSE ContentAddEach(pkf, key_attributes,
                        ContentAdd(pkf, key_attributes, recs, Head(items)), Tail(items))

\* history: content holds an equal record
Present(elem) ==
    \E k \in DOMAIN content.records : \E e \in content.records[k] : Eq(pk, e, elem)

\* What `last` remembers of a call on the index: the operation, its argument,
\* whether it returned, what lookup returned, whether the argument was in the
\* index when the call started, the call before, and for bulk_add the index
\* that adding the records one by one would have given.
IdxCalled(op, arg, ok, code, payload, each) ==
    [op |-> op, obj |-> arg, ok |-> ok, code |-> code, payload |-> payload,
     present |-> IF op \in {"add", "delete"} THEN Present(arg) ELSE FALSE,
     prev |-> [op |-> last.op, obj |-> last.obj, ok |-> last.ok],
     each |-> each]

IdxAdd(o) ==
    LET r == member_add(config, pk, indexes[1], o)
    IN /\ ncalls < MaxCalls
       /\ ncalls' = ncalls + 1
       /\ indexes' = <<r.idx>>
       /\ content' = IF r.ok
                     THEN [content EXCEPT !.records =
                               ContentAdd(pk, config.key_attributes, @, o)]
                     ELSE content
       /\ last' = IdxCalled("add", o, r.ok, 0, <<>>, <<>>)
       /\ UNCHANGED <<pk, cacheable, change_log, value, db, next_pk, next_tmp,
                      apply_count, config, lock, threads>>

IdxDelete(o) ==
    LET r == member_delete(config, pk, indexes[1], o)
    IN /\ ncalls < MaxCalls
       /\ ncalls' = ncalls + 1
       /\ indexes' = <<r.idx>>
       /\ content' = IF r.ok
                     THEN [content EXCEPT !.records =
                               ContentDelete(pk, config.key_attributes, @, o)]
                     ELSE content
       /\ last' = IdxCalled("delete", o, r.ok, 0, <<>>, <<>>)
       /\ UNCHANGED <<pk, cacheable, change_log, value, db, next_pk, next_tmp,
                      apply_count, config, lock, threads>>

IdxBulkAdd(items) ==
    LET r == member_bulk_add(config, pk, indexes[1], items)
    IN /\ ncalls < MaxCalls
       /\ ncalls' = ncalls + 1
       /\ indexes' = <<r.idx>>
       /\ content' = [records |-> ContentAddEach(pk, config.key_attributes,
                                                 content.records, items),
                      only_add_delete |-> FALSE]
       /\ last' = IdxCalled("bulk_add", items, r.ok, 0, <<>>,
                            AddEach(config, pk, indexes[1], items).idx)
       /\ UNCHANGED <<pk, cacheable, change_log, value, db, next_pk, next_tmp,
                      apply_count, config, lock, threads>>

IdxLookup(parameters) ==
    LET r == member_lookup(config, indexes[1], parameters)
    IN /\ ncalls < MaxCalls
       /\ ncalls' = ncalls + 1
       /\ indexes' = <<r.idx>>
       /\ last' = IdxCalled("lookup", parameters, TRUE, r.code, r.payload, <<>>)
       /\ UNCHANGED <<pk, cacheable, change_log, value, db, next_pk, next_tmp,
                      apply_count, config, content, lock, threads>>

IdxClear ==
    /\ ncalls < MaxCalls
    /\ ncalls' = ncalls + 1
    /\ indexes' = <<<<>>>>
    /\ content' = [content EXCEPT !.records = <<>>]
    /\ last' = IdxCalled("clear", 0, TRUE, 0, <<>>, <<>>)
    /\ UNCHANGED <<pk, cacheable, change_log, value, db, next_pk, next_tmp,
                   apply_count, config, lock, threads>>

\* An empty index of either kind, keyed on pk or on cat, and records of which
\* some have no identity and some share one
InitIdx ==
    /\ pk \in [Objs -> {None, 1, 2}]
    /\ config \in [kind : {"ListLookup", "DefaultListLookup"},
                   key_attributes : {<<"pk">>, <<"cat">>}]
    /\ indexes = <<<<>>>>
    /\ content = [records |-> <<>>, only_add_delete |-> TRUE]
    /\ ncalls = 0
    /\ last = [op |-> "init", obj |-> 0, ok |-> TRUE]
    /\ cacheable = [o \in Objs |-> FALSE]
    /\ change_log = <<>>
    /\ value = 0
    /\ db = {}
    /\ next_pk = 1
    /\ next_tmp = 0
    /\ apply_count = <<>>
    /\ lock = 0
    /\ threads = <<>>

NextIdx ==
    \/ \E o \in Objs : IdxAdd(o)
    \/ \E o \in Objs : IdxDelete(o)
    \/ \E items \in ItemLists : IdxBulkAdd(items)
    \/ \E parameters \in Parameters : IdxLookup(parameters)
    \/ IdxClear

SpecIdx == InitIdx /\ [][NextIdx]_vars

----------------------------------------------------------------------------
(* Properties of one bucket index *)

\* C13: for both kinds of bucket index, delete of a record that is not in the
\* index (never added, or deleted since) fails, also when the bucket of the
\* record's key exists because of another record or of an earlier lookup.
C13_DeleteOfAbsentFails ==
    (last.op = "delete" /\ ~last.present) => ~last.ok

\* The parameter names are exactly the key attributes of the index
NamesAreKey(parameters) == DOMAIN parameters = Range(config.key_attributes)

\* The payload holds exactly the records recs, in sort-key order
HoldsInOrder(payload, recs) ==
    /\ Range(payload) = recs
    /\ Len(payload) = Cardinality(recs)
    /\ \A i, j \in 1..Len(payload) : i < j => rank(payload[i]) <= rank(payload[j])

\* C14: after add and delete calls, lookup answers NOT_SUPPORTED when the
\* parameter names are not exactly the key attributes; otherwise FOUND with
\* exactly the records added and not deleted since under that key, in sort-key
\* order, when there are any; otherwise DOES_NOT_EXIST when the index is
\* authoritative and UNKNOWN when not.  FOUND never comes with an empty payload.
C14_LookupAnswersContent ==
    (last.op = "lookup" /\ content.only_add_delete) =>
        /\ IF ~NamesAreKey(last.obj)
           THEN last.code = LOOKUP_NOT_SUPPORTED
           ELSE LET recs == Bucket(content.records,
                                   ParamKey(config.key_attributes, last.obj), {})
                IN IF recs # {}
                   THEN last.code = VALUE_FOUND /\ HoldsInOrder(last.payload, recs)
                   ELSE last.code = IF can_answer_authoritatively
                                    THEN VALUE_DOES_NOT_EXIST ELSE VALUE_UNKNOWN
        /\ last.code = VALUE_FOUND => last.payload # <<>>

\* The parameters that ask for the key of record o
ParametersOf(o) ==
    [name \in Range(config.key_attributes) |-> Attr(pk, o, name)]

\* C15: for both kinds of bucket index, adding two record-equal instances with
\* the same key one after the other leaves exactly one record of that identity
\* in the bucket of the key, and it is the instance added second.
C15_SecondInstanceReplacesFirst ==
    (/\ last.op = "add" /\ last.prev.op = "add" /\ last.prev.ok
     /\ last.obj # last.prev.obj
     /\ Eq(pk, last.obj, last.prev.obj)
     /\ Key(pk, config.key_attributes, last.obj)
            = Key(pk, config.key_attributes, last.prev.obj)) =>
        LET r == member_lookup(config, indexes[1], ParametersOf(last.obj))
        IN /\ last.ok
           /\ r.code = VALUE_FOUND
           /\ {i \in 1..Len(r.payload) : Eq(pk, r.payload[i], last.obj)}
                  = {i \in 1..Len(r.payload) : r.payload[i] = last.obj}
           /\ Cardinality({i \in 1..Len(r.payload) : r.payload[i] = last.obj}) = 1

\* C16: bulk_add(records) leaves the index as add of each record in order
\* would, as lookup on every key observes it (same code, same records, same
\* order), also for lists that hold record-equal duplicates.
C16_BulkAddIsAddEach ==
    last.op = "bulk_add" =>
        \A parameters \in Parameters :
            LET bulk == member_lookup(config, indexes[1], parameters)
                each == member_lookup(config, last.each, parameters)
            IN bulk.code = each.code /\ bulk.payload = each.payload

----------------------------------------------------------------------------
(* A CompositeLookup a caller constructed over member indexes of the three    *)
(* kinds: config is the list of members, [kind, key_attributes,               *)
(* restrict_query], indexes[i] the _index dict of the i-th (nothing for a     *)
(* DjangoFilterLookup, which reads the rows of the store).                    *)

\* Number of member indexes of the composite
MaxMembers == 2

\* The sequence of the elements of a set of records, in the order of the store
RECURSIVE SeqOf(_)
SeqOf(S) ==
    IF S = {} THEN <<>>
    ELSE LET m == CHOOSE x \in S : \A y \in S : x <= y
         IN <<m>> \o SeqOf(S \ {m})

\* base_queryset.filter(**parameters): the stored records with these values
filter(pkf, rows, parameters) ==
    SeqOf({o \in Objs : /\ pkf[o] \in rows
                        /\ \A name \in DOMAIN parameters :
                              Attr(pkf, o, name) = parameters[name]})

\* DjangoFilterLookup.lookup; restrict_query is the set of parameter-name sets
\* the caller's predicate refuses.  An empty queryset and None are both <<>>.
DjangoFilterLookup_lookup(pkf, rows, restrict_query, parameters) ==
    IF DOMAIN parameters \in restrict_query
    THEN [code |-> LOOKUP_NOT_SUPPORTED, payload |-> <<>>]
    ELSE LET qs == filter(pkf, rows, parameters)
         IN IF qs # <<>> THEN [code |-> VALUE_FOUND, payload |-> qs]
            ELSE [code |-> VALUE_DOES_NOT_EXIST, payload |-> qs]

\* idx.lookup(**parameters) of a member of any kind
part_lookup(cfg, pkf, rows, idx, parameters) ==
    IF cfg.kind = "DjangoFilterLookup"
    THEN LET r == DjangoFilterLookup_lookup(pkf, rows, cfg.restrict_query, parameters)
         IN [code |-> r.code, payload |-> r.payload, idx |-> idx]
    ELSE member_lookup(cfg, idx, parameters)

\* idx.add(elem) of a member of any kind: LookupContainer.add does nothing
part_add(cfg, pkf, idx, elem) ==
    IF cfg.kind = "DjangoFilterLookup" THEN [ok |-> TRUE, idx |-> idx]
    ELSE member_add(cfg, pkf, idx, elem)

\* CompositeLookup.lookup over the members cfgs, from the i-th on
RECURSIVE LookupAmong(_, _, _, _, _, _, _)
LookupAmong(cfgs, pkf, rows, idxs, parameters, i, retcode) ==
    IF i > Len(cfgs) THEN [code |-> retcode, payload |-> <<>>, indexes |-> idxs]
    ELSE LET r == part_lookup(cfgs[i], pkf, rows, idxs[i], parameters)
             touched == [idxs EXCEPT ![i] = r.idx]
         IN IF r.code \in {VALUE_FOUND, VALUE_DOES_NOT_EXIST}
            THEN [code |-> r.code, payload |-> r.payload, indexes |-> touched]
            ELSE LookupAmong(cfgs, pkf, rows, touched, parameters, i + 1,
                             Max(retcode, r.code))

\* The members a composite can be made of
Members ==
    {[kind |-> "ListLookup", key_attributes |-> <<"pk">>, restrict_query |-> {}],
     [kind |-> "DefaultListLookup", key_attributes |-> <<"cat">>, restrict_query |-> {}],
     [kind |-> "DjangoFilterLookup", key_attributes |-> <<>>, restrict_query |-> {}],
     [kind |-> "DjangoFilterLookup", key_attributes |-> <<>>,
      restrict_query |-> {{"cat"}, {"pk", "cat"}, {}}]}

\* composite.add(elem)
CompAdd(o) ==
    LET c == Broadcast(indexes, [i \in 1..Len(config) |->
                                    part_add(config[i], pk, indexes[i], o)])
    IN /\ ncalls < MaxCalls
       /\ ncalls' = ncalls + 1
       /\ indexes' = c.indexes
       /\ last' = [op |-> "add", obj |-> o, ok |-> c.ok, code |-> 0, payload |-> <<>>]
       /\ UNCHANGED <<pk, cacheable, change_log, value, db, next_pk, next_tmp,
                      apply_count, config, content, lock, threads>>

\* composite.lookup(**parameters)
CompLookup(parameters) ==
    LET r == LookupAmong(config, pk, db, indexes, parameters, 1, LOOKUP_NOT_SUPPORTED)
    IN /\ ncalls < MaxCalls
       /\ ncalls' = ncalls + 1
       /\ indexes' = r.indexes
       /\ last' = [op |-> "lookup", obj |-> parameters, ok |-> TRUE,
                   code |-> r.code, payload |-> r.payload]
       /\ UNCHANGED <<pk, cacheable, change_log, value, db, next_pk, next_tmp,
                      apply_count, config, content, lock, threads>>

\* A composite of up to MaxMembers members, all empty, over records with
\* identities of their own; the store holds the row of identity 2
InitComp ==
    /\ pk = [o \in Objs |-> o]
    /\ db = {2}
    /\ config \in SeqsUpTo(Members, MaxMembers)
    /\ indexes = [i \in 1..Len(config) |-> <<>>]
    /\ ncalls = 0
    /\ last = [op |-> "init", obj |-> 0, ok |-> TRUE]
    /\ content = <<>>
    /\ cacheable = [o \in Objs |-> FALSE]
    /\ change_log = <<>>
    /\ value = 0
    /\ next_pk = 1
    /\ next_tmp = 0
    /\ apply_count = <<>>
    /\ lock = 0
    /\ threads = <<>>

NextComp ==
    \/ \E o \in Objs : CompAdd(o)
    \/ \E parameters \in Parameters : CompLookup(parameters)

SpecComp == InitComp /\ [][NextComp]_vars

\* What each member answers to the parameters of the last lookup
Answers ==
    [i \in 1..Len(config) |-> part_lookup(config[i], pk, db, indexes[i], last.obj)]

\* The members whose answer is certain
Certain == {i \in 1..Len(config) : Answers[i].code \in {VALUE_FOUND, VALUE_DOES_NOT_EXIST}}

\* C17: CompositeLookup.lookup returns code and payload of the first member, in
\* configured order, that answers FOUND or DOES_NOT_EXIST; when none does, the
\* highest of the members' NOT_SUPPORTED / UNKNOWN codes without payload, and
\* NOT_SUPPORTED when there is no member.
C17_FirstCertainAnswerWins ==
    last.op = "lookup" =>
        IF Certain # {}
        THEN LET first == CHOOSE i \in Certain : \A j \in Certain : i <= j
             IN last.code = Answers[first].code /\ last.payload = Answers[first].payload
        ELSE /\ last.payload = <<>>
             /\ last.code \in {Answers[i].code : i \in 1..Len(config)}
                                \cup {LOOKUP_NOT_SUPPORTED}
             /\ \A i \in 1..Len(config) : Answers[i].code <= last.code

\* A lookup that the first member answered UNKNOWN and the second DOES_NOT_EXIST
C17_Witness ==
    /\ last.op = "lookup" /\ Len(config) = 2
    /\ Answers[1].code = VALUE_UNKNOWN
    /\ Answers[2].code = VALUE_DOES_NOT_EXIST
    /\ last.code = VALUE_DOES_NOT_EXIST

----------------------------------------------------------------------------
(* Sequence.next_value called by concurrent threads.  threads[t] is          *)
(* [pc, tmp, ret, got]: where thread t is in next_value, the value it loaded  *)
(* for `self.value += 1`, its local ret, and the values its calls returned.   *)

\* Number of threads calling next_value
NThreads == 2

Threads == 1..NThreads

\* LockFree for a lock that everybody may take
LockFree_always(l) == TRUE

\* threading.Lock: free when no thread holds it
LockFree(l) == l = 0

At(t, label) == threads[t].pc = label

\* What next_value leaves alone
cache == <<pk, cacheable, indexes, change_log, db, next_pk, next_tmp, apply_count,
           last, config, content>>

\* Thread t is at `from` and goes to `to`
Goto(t, from, to) ==
    /\ At(t, from)
    /\ threads' = [threads EXCEPT ![t].pc = to]

\* A thread calls next_value (the calls of a run are limited by MaxValue)
Call(t) ==
    /\ ncalls < MaxValue
    /\ ncalls' = ncalls + 1
    /\ Goto(t, "idle", "acquire")
    /\ UNCHANGED <<value, lock>>
    /\ UNCHANGED cache

\* with self._lock: blocks until the lock is free, then holds it
Acquire(t) ==
    /\ LockFree(lock)
    /\ lock' = t
    /\ Goto(t, "acquire", "load")
    /\ UNCHANGED <<value, ncalls>>
    /\ UNCHANGED cache

\* self.value += 1, the load
Load(t) ==
    /\ At(t, "load")
    /\ threads' = [threads EXCEPT ![t].pc = "store", ![t].tmp = value]
    /\ UNCHANGED <<value, lock, ncalls>>
    /\ UNCHANGED cache

\* self.value += 1, the store
Store(t) ==
    /\ At(t, "store")
    /\ value' = threads[t].tmp + 1
    /\ threads' = [threads EXCEPT ![t].pc = "read"]
    /\ UNCHANGED <<lock, ncalls>>
    /\ UNCHANGED cache

\* ret = self.value
Read(t) ==
    /\ At(t, "read")
    /\ threads' = [threads EXCEPT ![t].pc = "release", ![t].ret = value]
    /\ UNCHANGED <<value, lock, ncalls>>
    /\ UNCHANGED cache

\* leaving the with block releases the lock
Release(t) ==
    /\ lock' = 0
    /\ Goto(t, "release", "return")
    /\ UNCHANGED <<value, ncalls>>
    /\ UNCHANGED cache

\* return ret
Return(t) ==
    /\ At(t, "return")
    /\ threads' = [threads EXCEPT ![t].pc = "idle", ![t].got = Append(@, threads[t].ret)]
    /\ UNCHANGED <<value, lock, ncalls>>
    /\ UNCHANGED cache

\* Sequence.__init__, and threads that have not called yet
InitSeq ==
    /\ value = 0
    /\ lock = 0
    /\ threads = [t \in Threads |-> [pc |-> "idle", tmp |-> 0, ret |-> 0, got |-> <<>>]]
    /\ ncalls = 0
    /\ pk = <<>>
    /\ cacheable = <<>>
    /\ indexes = <<>>
    /\ change_log = <<>>
    /\ db = {}
    /\ next_pk = 1
    /\ next_tmp = 0
    /\ apply_count = <<>>
    /\ last = [op |-> "init", obj |-> 0, ok |-> TRUE]
    /\ config = <<>>
    /\ content = <<>>

NextSeq ==
    \/ \E t \in Threads : Call(t)
    \/ \E t \in Threads : Acquire(t)
    \/ \E t \in Threads : Load(t)
    \/ \E t \in Threads : Store(t)
    \/ \E t \in Threads : Read(t)
    \/ \E t \in Threads : Release(t)
    \/ \E t \in Threads : Return(t)

SpecSeq == InitSeq /\ [][NextSeq]_vars

\* The values next_value has returned so far, to any thread
Returned == UNION {Range(threads[t].got) : t \in Threads}

\* The number of calls that have returned
RECURSIVE ReturnedCalls(_)
ReturnedCalls(t) == IF t = 0 THEN 0 ELSE Len(threads[t].got) + ReturnedCalls(t - 1)

\* C18: under every interleaving of the callers, the N calls of next_value made
\* in total return N pairwise distinct values, exactly 1..N, and the values a
\* single caller gets are strictly increasing.
C18_NextValueDistinctGapless ==
    /\ Cardinality(Returned) = ReturnedCalls(NThreads)
    /\ \A t \in Threads : \A i, j \in 1..Len(threads[t].got) :
          i < j => threads[t].got[i] < threads[t].got[j]
    /\ (\A t \in Threads : At(t, "idle")) => Returned = 1..ncalls

\* All MaxValue calls have returned, some to each thread
C18_Witness ==
    /\ \A t \in Threads : At(t, "idle") /\ threads[t].got # <<>>
    /\ ncalls = MaxValue

----------------------------------------------------------------------------
(* Lookup as a query *)

\* One lookup on the index leaves its _index dict as it was
C21_Step == last'.op = "lookup" => indexes' = indexes

\* C21: lookup is a pure query on every kind of index: no lookup, whatever its
\* parameters and its answer, changes the state of the index, so that what a
\* later add, bulk_add, delete, lookup or len gives does not depend on it.
C21_LookupChangesNothing == [][C21_Step]_vars

====
